---- MODULE Spec2Model ----
(***************************************************************************)
(* ServerSync: the synchronization pipeline of src/main.rs, src/config.rs  *)
(* and src/file_system.rs as a state machine.                              *)
(*                                                                         *)
(* The pipeline is the one main() spells out from EnvConf::new onwards     *)
(* (main.rs:87-106): EnvConf::new, FileSystem::new, run (sync_repository,  *)
(* then walk_directory per context).  main.rs:84-85 call a scratch         *)
(* function and return before that pipeline; the model starts at line 87.  *)
(*                                                                         *)
(* Paths are sequences of components, a component is the sequence of its   *)
(* dot-separated segments (<<"app","conf">> is app.conf), "/" is <<>>.     *)
(* File contents are sequences of atoms: an atom is a run of literal       *)
(* bytes, a template token "{{NAME}}", or the byte 0xFF that makes the     *)
(* content invalid UTF-8.                                                  *)
(***************************************************************************)
EXTENDS Integers, Sequences, FiniteSets, TLC

VARIABLES
    conf,          \* EnvConf: what get_env resolves, and the context list
    git,           \* how the git commands end in this environment
    checkout,      \* does repo_storage exist (a checkout on disk)
    src,           \* the tree under {repo_storage}/contexts of the branch
    dst,           \* the destination filesystem: path -> node
    links,         \* destination paths that are symlinks (dst shows their target)
    pc,            \* position in main / run / walk_directory
    exitCode,      \* process exit code, NoExit while running
    runNo,         \* number of the current invocation (1 = first)
    ctxIdx,        \* index into conf.contexts of the context in hand
    entries,       \* files the walker has still to yield for this context
    non_utf8,      \* walk_directory's non_utf8 vector (relative paths)
    cur,           \* the entry in hand: rel path, old destination node, candidate
    ops,           \* history: filesystem mutations of this invocation
    madeByRun,     \* history: paths whose node this invocation created or wrote
    reconciled,    \* history: <<context, rel>> whose loop body ran to its end
    failed,        \* history: <<context, rel>> whose reconciliation failed
    gitFailed,     \* history: a git sub-step exited with a non-zero status
    fetchCount,    \* history: completed calls of sync_repository
    preFetchReads, \* history: source files read before sync_repository ran
    prevDst,       \* history: dst as the previous invocation left it
    call           \* a configuration function applied on its own: input and result

vars == << conf, git, checkout, src, dst, links, pc, exitCode, runNo, ctxIdx, entries,
           non_utf8, cur, ops, madeByRun, reconciled, failed, gitFailed, fetchCount,
           preFetchReads, prevDst, call >>

---------------------------------------------------------------------------
(* Bounds of the model *)

MaxContexts == 2      \* contexts configured at most
MaxFiles == 2         \* source files over all configured contexts at most
MaxRuns == 2          \* successive invocations at most
MaxStrLen == 3        \* characters of a delimited context string at most

---------------------------------------------------------------------------
(* Program constants *)

FileMode == 420       \* 0o644
DirMode == 493        \* 0o755
ConfigExit == 19
ErrorExit == 1
PanicExit == 101      \* a Rust panic (unwrap / expect) ends the process with 101
NoExit == -1

\* What the OS gives a node the process creates (umask 002, running as root).
NewFileMode == 436
NewDirMode == 509
ProcUid == 0

---------------------------------------------------------------------------
(* Paths: std::path::Path *)

destination_root == << <<"srv">> >>

AppConf == << <<"etc">>, <<"app", "conf">> >>
AppBak == << <<"etc">>, <<"app", "bak">> >>
Blob == << <<"blob">> >>

RelPaths == {AppConf, AppBak, Blob}

\* the relative paths one source tree draws its files from
Layouts == {{AppConf, AppBak}, {AppConf, Blob}}

\* Path::join of a relative path
Join(base, rel) == base \o rel

\* Path::parent
Parent(p) == SubSeq(p, 1, Len(p) - 1)

\* Path::ancestors: the path itself, its parent, ..., "/"
Ancestors(p) == [i \in 1..(Len(p) + 1) |-> SubSeq(p, 1, Len(p) + 1 - i)]

\* Path::starts_with: component-wise prefix
StartsWith(p, base) ==
    /\ Len(base) <= Len(p)
    /\ SubSeq(p, 1, Len(base)) = base

\* Path::extension of a file name: the part after the last dot, none when
\* there is no dot or the only dot leads the name (".bashrc")
HasExtension(name) ==
    /\ Len(name) >= 2
    /\ ~(Len(name) = 2 /\ name[1] = "")

\* Path::with_extension
WithExtension(p, ext) ==
    LET name == p[Len(p)]
        stem == IF HasExtension(name) THEN SubSeq(name, 1, Len(name) - 1) ELSE name
    IN  Parent(p) \o << stem \o <<ext>> >>

DestOf(rel) == Join(destination_root, rel)

\* a backup path that keeps the extension and appends ".bak" to the name
BackupPathAppended(p) == Parent(p) \o << p[Len(p)] \o <<"bak">> >>

\* check_existing's backup path: destination.with_extension("bak")
BackupPath(p) == WithExtension(p, "bak")

SeqRange(s) == {s[i] : i \in DOMAIN s}

\* every path the model's filesystem has a node for
DestFilePaths ==
    {DestOf(r) : r \in RelPaths}
    \cup {BackupPath(DestOf(r)) : r \in RelPaths}
    \cup {WithExtension(DestOf(r), "bak") : r \in RelPaths}
    \cup {BackupPathAppended(DestOf(r)) : r \in RelPaths}

AllPaths == UNION {SeqRange(Ancestors(p)) : p \in DestFilePaths}

---------------------------------------------------------------------------
(* File contents *)

InvalidByte == "0xFF"

TemplateTokens == {"{{server_name}}", "{{PORT}}", "{{MISSING}}"}

TokenName(atom) ==
    CASE atom = "{{server_name}}" -> "server_name"
      [] atom = "{{PORT}}" -> "PORT"
      [] atom = "{{MISSING}}" -> "MISSING"

\* a check that takes every content for valid UTF-8
IsUtf8Always(bytes) == TRUE

\* simdutf8::basic::from_utf8(..).is_ok()
IsUtf8(bytes) == \A i \in DOMAIN bytes : bytes[i] # InvalidByte

TextSource == <<"host=", "{{server_name}}", ":", "{{PORT}}">>
MissingSource == <<"key=", "{{MISSING}}">>
OpaqueSource == <<"0xFF", "{{PORT}}">>

SourceContents == {TextSource, MissingSource, OpaqueSource}

OldText == <<"host=", "web", ":", "9999">>
\* an old destination that is not UTF-8: it holds the bytes of the opaque
\* source already (put there by hand, with the mode and owner of that copy)
OldBinary == OpaqueSource

---------------------------------------------------------------------------
(* The destination filesystem *)

NoNode == [kind |-> "none", bytes |-> <<>>, mode |-> 0, uid |-> 0, gid |-> 0]

DirNode(mode, uid, gid) ==
    [kind |-> "dir", bytes |-> <<>>, mode |-> mode, uid |-> uid, gid |-> gid]

FileNode(bytes, mode, uid, gid) ==
    [kind |-> "file", bytes |-> bytes, mode |-> mode, uid |-> uid, gid |-> gid]

\* Path::exists
Exists(fs, p) == fs[p].kind # "none"

\* Path::is_dir
IsDir(fs, p) == fs[p].kind = "dir"

\* The result of a filesystem step: the filesystem it leaves, how it ended
\* ("ok", "err" for an Err that `?` propagates, "panic" for an unwrap that
\* panics) and the mutations it made.
Res(fs, st, done) == [fs |-> fs, st |-> st, ops |-> done]

\* a mutation of the node at p; a rename also names the path it moved
Op(kind, p) == [op |-> kind, path |-> p, from |-> p]

Moved(from, to) == [op |-> "rename", path |-> to, from |-> from]

\* std::fs::create_dir: one level, fails when the path exists or its parent
\* is not a directory
create_dir(fs, p) ==
    IF Len(p) = 0 \/ Exists(fs, p) \/ ~IsDir(fs, Parent(p))
    THEN Res(fs, "err", {})
    ELSE Res([fs EXCEPT ![p] = DirNode(NewDirMode, ProcUid, ProcUid)], "ok",
             {Op("create_dir", p)})

\* std::fs::rename of a file: replaces a file at the target, fails on a
\* directory at the target; renaming a path to itself changes nothing
rename(fs, from, to) ==
    IF fs[from].kind # "file" \/ fs[to].kind = "dir" THEN Res(fs, "err", {})
    ELSE IF from = to THEN Res(fs, "ok", {Moved(from, to)})
    ELSE Res([fs EXCEPT ![to] = fs[from], ![from] = NoNode], "ok",
             {Moved(from, to)})

\* File::create followed by write_all: truncates an existing file (its mode
\* and owner stay), creates a missing one, fails on a directory
create_and_write(fs, p, bytes) ==
    IF fs[p].kind = "dir" \/ ~IsDir(fs, Parent(p)) THEN Res(fs, "err", {})
    ELSE IF fs[p].kind = "file"
    THEN Res([fs EXCEPT ![p].bytes = bytes], "ok", {Op("write", p)})
    ELSE Res([fs EXCEPT ![p] = FileNode(bytes, NewFileMode, ProcUid, ProcUid)],
             "ok", {Op("write", p)})

---------------------------------------------------------------------------
(* Identities: UID / USER / GID / GROUP *)

Unset == "unset"

\* str::parse::<u32>: the strings that parse, and their values
Numeric == ("1000" :> 1000) @@ ("33" :> 33)

\* the OS password and group databases: name -> id
Passwd == ("deploy" :> 1001)
GroupDb == ("web" :> 48)

\* Option<id> as a record
Some(v) == [some |-> TRUE, v |-> v]
None == [some |-> FALSE, v |-> 0]

\* PermissionManager::new: Ok when an owner and a group both resolve;
\* a value that does not parse or a name that is unknown is passed over
PermissionManagerNew(c) ==
    LET owner == IF c.UID # Unset /\ c.UID \in DOMAIN Numeric THEN Some(Numeric[c.UID])
                 ELSE IF c.USER # Unset /\ c.USER \in DOMAIN Passwd THEN Some(Passwd[c.USER])
                 ELSE None
        group == IF c.GID # Unset /\ c.GID \in DOMAIN Numeric THEN Some(Numeric[c.GID])
                 ELSE IF c.GROUP # Unset /\ c.GROUP \in DOMAIN GroupDb THEN Some(GroupDb[c.GROUP])
                 ELSE None
    IN  owner.some /\ group.some

\* fix_permissions, owner: UID parsed with unwrap, else USER looked up with
\* unwrap, else an Err
ResolveOwner(c) ==
    IF c.UID # Unset
    THEN IF c.UID \in DOMAIN Numeric THEN [st |-> "ok", id |-> Numeric[c.UID]]
         ELSE [st |-> "panic", id |-> 0]
    ELSE IF c.USER # Unset
    THEN IF c.USER \in DOMAIN Passwd THEN [st |-> "ok", id |-> Passwd[c.USER]]
         ELSE [st |-> "panic", id |-> 0]
    ELSE [st |-> "err", id |-> 0]

\* fix_permissions, group: GID parsed with unwrap, else GROUP looked up with
\* unwrap, else Group::from_gid(owner.id())
ResolveGroup(c, ownerId) ==
    IF c.GID # Unset
    THEN IF c.GID \in DOMAIN Numeric THEN [st |-> "ok", id |-> Numeric[c.GID]]
         ELSE [st |-> "panic", id |-> 0]
    ELSE IF c.GROUP # Unset
    THEN IF c.GROUP \in DOMAIN GroupDb THEN [st |-> "ok", id |-> GroupDb[c.GROUP]]
         ELSE [st |-> "panic", id |-> 0]
    ELSE [st |-> "ok", id |-> ownerId]

\* fix_permissions: chmod by kind first, then resolve owner and group, then
\* chown; an Err or a panic after the chmod leaves the chmod in place.
\* There is no is_symlink test: Path::is_dir, set_permissions (chmod) and
\* set_owner_group (chown) all follow a symlink, so for a path that is a
\* symlink the node changed is the link's target, which is what fs shows
\* at that path.
fix_permissions(fs, p, c) ==
    IF ~Exists(fs, p) THEN Res(fs, "err", {})
    ELSE
    LET perm == IF IsDir(fs, p) THEN DirMode ELSE FileMode
        fs1 == [fs EXCEPT ![p].mode = perm]
        owner == ResolveOwner(c)
        group == ResolveGroup(c, owner.id)
    IN  IF owner.st # "ok" THEN Res(fs1, owner.st, {Op("chmod", p)})
        ELSE IF group.st # "ok" THEN Res(fs1, group.st, {Op("chmod", p)})
        ELSE Res([fs1 EXCEPT ![p].uid = owner.id, ![p].gid = group.id], "ok",
                 {Op("chmod", p), Op("chown", p)})

---------------------------------------------------------------------------
(* walk_directory: the ancestor loop *)

\* the ancestor loop without its starts_with filter
AncestorDirsUnfiltered(dest) == Ancestors(Parent(dest))

\* the ancestors of the destination's parent that lie under the destination
\* root, in the order Path::ancestors yields them (leaf first)
AncestorDirs(dest) ==
    SelectSeq(Ancestors(Parent(dest)), LAMBDA a : StartsWith(a, destination_root))

\* for ancestor in ancestors_dirs { if !exists { create_dir? }; fix_permissions? }
RECURSIVE EnsureAncestors(_, _, _, _)
EnsureAncestors(fs, dirs, c, done) ==
    IF dirs = <<>> THEN Res(fs, "ok", done)
    ELSE
    LET a == Head(dirs)
        made == IF Exists(fs, a) THEN Res(fs, "ok", {}) ELSE create_dir(fs, a)
    IN  IF made.st # "ok" THEN Res(made.fs, made.st, done \cup made.ops)
        ELSE
        LET fixed == fix_permissions(made.fs, a, c)
        IN  IF fixed.st # "ok"
            THEN Res(fixed.fs, fixed.st, done \cup made.ops \cup fixed.ops)
            ELSE EnsureAncestors(fixed.fs, Tail(dirs), c,
                                 done \cup made.ops \cup fixed.ops)

---------------------------------------------------------------------------
(* Configuration: get_cli, _get_env, EnvConf::new's context list,         *)
(* EnvConf::get_variables, each applied on its own to inputs drawn from   *)
(* bounded sets.  An option value is a sequence of characters.            *)

\* Option<value>: an absent value carries <<>>
Given(v) == [some |-> TRUE, v |-> v]
Absent == [some |-> FALSE, v |-> <<>>]

\* the options _get_env is asked for
OptionNames ==
    {"SERVER_SYNC_DESTINATION", "SERVER_SYNC_REPO_STORAGE", "SERVER_SYNC_REPO",
     "SERVER_SYNC_BRANCH", "UID", "USER", "GID", "GROUP"}

\* get_cli: the ids of the arguments, the ones declared with .env(..), and
\* the ones declared with .default_value(..)
ArgIds ==
    {"VERBOSE", "SERVER_SYNC_ENV", "SERVER_SYNC_REPO", "SERVER_SYNC_BRANCH",
     "SERVER_SYNC_DESTINATION", "SERVER_SYNC_CONTEXTS", "SERVER_SYNC_REPO_STORAGE"}

ArgsWithEnv ==
    {"SERVER_SYNC_ENV", "SERVER_SYNC_REPO", "SERVER_SYNC_BRANCH",
     "SERVER_SYNC_DESTINATION", "SERVER_SYNC_REPO_STORAGE"}

ArgDefault ==
    ("SERVER_SYNC_ENV" :> <<".server_env">>)
    @@ ("SERVER_SYNC_REPO_STORAGE" :> <<"/tmp/server-sync/">>)

\* get_cli().get_matches(), the value clap holds for an argument: the flag
\* when it is on the command line, else the process variable of an argument
\* declared with .env(..), else the default value, else nothing
get_cli(name, flag, env) ==
    IF flag.some THEN flag
    ELSE IF name \in ArgsWithEnv /\ env.some THEN env
    ELSE IF name \in DOMAIN ArgDefault THEN Given(ArgDefault[name])
    ELSE Absent

\* the env file: EnvFile::new(..).ok() is None when the file cannot be read
NoFile == [present |-> FALSE, has |-> FALSE, v |-> <<>>]
FileWithout == [present |-> TRUE, has |-> FALSE, v |-> <<>>]
FileWith(v) == [present |-> TRUE, has |-> TRUE, v |-> v]

\* _get_env: the matches (try_get_one is an Err for an id that is no
\* argument), then the env file, then the process environment
get_env(name, flag, file, env) ==
    LET matched == IF name \in ArgIds THEN get_cli(name, flag, env) ELSE Absent
    IN  IF matched.some THEN matched
        ELSE IF file.present /\ file.has THEN Given(file.v)
        ELSE env

\* str::split: the pieces between the separators, one empty piece for an
\* empty string
RECURSIVE SplitOn(_, _)
SplitOn(str, seps) ==
    IF str = <<>> THEN << <<>> >>
    ELSE LET rest == SplitOn(Tail(str), seps)
         IN  IF Head(str) \in seps THEN << <<>> >> \o rest
             ELSE << <<Head(str)>> \o Head(rest) >> \o Tail(rest)

\* a split that also takes ';' as a separator
SplitCommaSemicolon(str) == SplitOn(str, {",", ";"})

\* EnvConf::new, config.rs:58: s.split(',')
SplitComma(str) == SplitOn(str, {","})

\* EnvConf::new, config.rs:51-75: the values of -c when there are any; else,
\* only when there is an env file, its SERVER_SYNC_CONTEXTS entry or else the
\* process variable, split at ','; else nothing.  Err when the list is empty.
ResolveContexts(flags, file, env) ==
    LET names ==
            IF flags.some THEN flags.v
            ELSE IF file.present
            THEN IF file.has THEN SplitComma(file.v)
                 ELSE IF env.some THEN SplitComma(env.v)
                 ELSE <<>>
            ELSE <<>>
    IN  [ok |-> names # <<>>, names |-> names]

\* a merge in which the env file's entries win
MergeVariablesFileWins(file, env) ==
    IF file.present THEN file.store @@ env ELSE env

\* EnvConf::get_variables: the env file's store (an empty map without a
\* file), then every process variable inserted over it
MergeVariables(file, env) ==
    IF file.present THEN env @@ file.store ELSE env

\* the inputs
Chars == {"a", "b", ",", ";", " "}

Strings == UNION {[1..n -> Chars] : n \in 0..MaxStrLen}

VariableKeys == {"PORT", "server_name", "HOME"}

StoresOf(value) == UNION {[keys -> {value}] : keys \in SUBSET VariableKeys}

\* the options that have a command-line flag
Flagged == ArgIds \cap OptionNames

\* a flag can be given only for an option that has one
GetEnvInputs ==
    {a \in {[name |-> n, flag |-> f, file |-> fl, env |-> e] :
                n \in OptionNames,
                f \in {Absent, Given(<<"from-cli">>)},
                fl \in {NoFile, FileWithout, FileWith(<<"from-file">>)},
                e \in {Absent, Given(<<"from-env">>)}} :
        a.flag.some => a.name \in Flagged}

\* the delimited string comes from the env file or from the process
ContextsInputs ==
    {[name |-> "SERVER_SYNC_CONTEXTS", flag |-> f, file |-> FileWith(str), env |-> e] :
        f \in {Absent, Given(<< <<"a">>, <<"b">> >>)},
        str \in Strings,
        e \in {Absent, Given(<<"b">>)}}
    \cup
    {[name |-> "SERVER_SYNC_CONTEXTS", flag |-> f, file |-> fl, env |-> e] :
        f \in {Absent, Given(<< <<"a">>, <<"b">> >>)},
        fl \in {NoFile, FileWithout},
        e \in {Absent} \cup {Given(str) : str \in Strings}}

VariablesInputs ==
    {[file |-> fl, env |-> e] :
        fl \in {[present |-> FALSE, store |-> <<>>]}
               \cup {[present |-> TRUE, store |-> st] : st \in StoresOf("from-file")},
        e \in StoresOf("from-env")}

---------------------------------------------------------------------------
(* Rendering *)

\* the environment file's store and the process environment
EnvFileStore == ("PORT" :> "9090") @@ ("server_name" :> "from-file")
ProcessEnv == ("PORT" :> "8080") @@ ("server_name" :> "from-env")

\* EnvConf::get_variables of the pipeline's configuration
get_variables == MergeVariables([present |-> TRUE, store |-> EnvFileStore], ProcessEnv)

\* a render whose server_name does not replace an entry the variables have
render_entry_keeping(contents, contextName) ==
    LET variables_cloned == get_variables @@ ("server_name" :> contextName)
        known(i) == contents[i] \notin TemplateTokens
                    \/ TokenName(contents[i]) \in DOMAIN variables_cloned
    IN  IF \A i \in DOMAIN contents : known(i)
        THEN Some([i \in DOMAIN contents |->
                     IF contents[i] \in TemplateTokens
                     THEN variables_cloned[TokenName(contents[i])]
                     ELSE contents[i]])
        ELSE [some |-> FALSE, v |-> <<>>]

\* render_entry: a clone of the variables with server_name inserted, then a
\* strict render without escaping: None (Rendering template failed) when a
\* token names a variable the map lacks
render_entry(contents, contextName) ==
    LET variables_cloned == ("server_name" :> contextName) @@ get_variables
        known(i) == contents[i] \notin TemplateTokens
                    \/ TokenName(contents[i]) \in DOMAIN variables_cloned
    IN  IF \A i \in DOMAIN contents : known(i)
        THEN Some([i \in DOMAIN contents |->
                     IF contents[i] \in TemplateTokens
                     THEN variables_cloned[TokenName(contents[i])]
                     ELSE contents[i]])
        ELSE [some |-> FALSE, v |-> <<>>]

\* similar's matched lines: the length of a longest common subsequence
RECURSIVE Matches(_, _)
Matches(old, new) ==
    IF old = <<>> \/ new = <<>> THEN 0
    ELSE IF Head(old) = Head(new) THEN 1 + Matches(Tail(old), Tail(new))
    ELSE LET skipOld == Matches(Tail(old), new)
             skipNew == Matches(old, Tail(new))
         IN  IF skipOld >= skipNew THEN skipOld ELSE skipNew

\* a comparison that finds every destination up to date
UpToDateAlways(existing_contents, rendered) == TRUE

\* a comparison that never finds the destination up to date
UpToDateNever(existing_contents, rendered) == FALSE

\* check_existing, the comparison: TextDiff::from_lines(..).ratio() == 1.0,
\* the ratio being 2 * matches / (lines of old + lines of new), 1.0 for two
\* empty texts
UpToDate(existing_contents, rendered) ==
    LET total == Len(existing_contents) + Len(rendered)
    IN  total = 0 \/ 2 * Matches(existing_contents, rendered) = total

---------------------------------------------------------------------------
(* Initial states *)

CtxNames == <<"a", "b", "c", "d">>

Contexts == {CtxNames[i] : i \in 1..MaxContexts}

NoSrc == [kind |-> "none", bytes |-> <<>>, readable |-> FALSE]

SrcFiles ==
    {NoSrc}
    \cup {[kind |-> "file", bytes |-> b, readable |-> TRUE] : b \in SourceContents}
    \cup {[kind |-> "file", bytes |-> TextSource, readable |-> FALSE]}

NoTree == [root |-> FALSE, files |-> [r \in RelPaths |-> NoSrc]]

\* the source tree with the given files (<<context, rel>> -> file), the
\* roots of the contexts in `missing` absent
SrcTree(content, missing) ==
    [c \in Contexts |->
        IF c \in missing THEN NoTree
        ELSE [root |-> TRUE,
              files |-> [r \in RelPaths |->
                           IF <<c, r>> \in DOMAIN content THEN content[<<c, r>>]
                           ELSE NoSrc]]]

FilesOf(tree) == {r \in RelPaths : tree.files[r].kind = "file"}

\* the identities a configuration may carry
Identities ==
    { [UID |-> "1000", USER |-> Unset, GID |-> "33", GROUP |-> Unset],
      [UID |-> Unset, USER |-> "deploy", GID |-> Unset, GROUP |-> "web"],
      [UID |-> "1000", USER |-> Unset, GID |-> Unset, GROUP |-> Unset],
      [UID |-> Unset, USER |-> Unset, GID |-> Unset, GROUP |-> Unset],
      [UID |-> "abc", USER |-> "deploy", GID |-> "33", GROUP |-> Unset] }

GoodIdentity == [UID |-> "1000", USER |-> Unset, GID |-> "33", GROUP |-> Unset]

MkConf(dest, repo, contexts, id) ==
    [dest |-> dest, repo |-> repo, contexts |-> contexts,
     UID |-> id.UID, USER |-> id.USER, GID |-> id.GID, GROUP |-> id.GROUP]

ContextLists == {SubSeq(CtxNames, 1, n) : n \in 0..MaxContexts}

\* configurations: every context list with every identity, and the ones
\* that lack the destination or the repository URL
Confs ==
    {MkConf(TRUE, TRUE, cs, id) : cs \in ContextLists, id \in Identities}
    \cup {MkConf(FALSE, TRUE, cs, GoodIdentity) : cs \in ContextLists}
    \cup {MkConf(TRUE, FALSE, cs, GoodIdentity) : cs \in ContextLists}

PlainConfs == {MkConf(TRUE, TRUE, cs, GoodIdentity) : cs \in ContextLists \ {<<>>}}

InitFilePaths(layout) ==
    {DestOf(r) : r \in layout} \cup {WithExtension(DestOf(r), "bak") : r \in layout}

\* the directories strictly between the destination root and the files
InitDirs ==
    {p \in AllPaths : /\ StartsWith(p, destination_root)
                      /\ p # destination_root
                      /\ \E f \in DestFilePaths : f # p /\ StartsWith(f, p)}

\* how the git commands of sync_repository end: both exit with 0, one of
\* them exits with a non-zero status, or git cannot be spawned at all
GitWorlds ==
    { [first |-> "ok", second |-> "ok"],
      [first |-> "nonzero", second |-> "nonzero"],
      [first |-> "nonzero", second |-> "ok"],
      [first |-> "ok", second |-> "nonzero"],
      [first |-> "spawn_failed", second |-> "spawn_failed"] }

GitOk == [first |-> "ok", second |-> "ok"]

DstOptions == {"none", "text", "binary", "dir"}

OptionNode(o) ==
    CASE o = "none" -> NoNode
      [] o = "text" -> FileNode(OldText, 384, ProcUid, ProcUid)
      [] o = "binary" -> FileNode(OldBinary, 384, ProcUid, ProcUid)
      [] o = "dir" -> DirNode(448, ProcUid, ProcUid)

\* a destination tree: "/" exists, the destination root and the directories
\* below it exist as chosen, a directory that holds something exists
InitDst(rootOk, dirsOk, opt) ==
    [p \in AllPaths |->
        IF p = <<>> THEN DirNode(DirMode, ProcUid, ProcUid)
        ELSE IF p = destination_root
        THEN IF rootOk THEN DirNode(448, ProcUid, ProcUid) ELSE NoNode
        ELSE IF p \in DOMAIN opt
        THEN OptionNode(opt[p])
        ELSE IF p \in InitDirs /\ rootOk
                /\ (dirsOk \/ \E f \in DOMAIN opt : opt[f] # "none" /\ StartsWith(f, p))
        THEN DirNode(448, ProcUid, ProcUid)
        ELSE NoNode]

\* no configuration function is applied in a run of the pipeline
NoCall == [fn |-> "none", arg |-> <<>>, done |-> FALSE, out |-> <<>>]

NoCur == [rel |-> <<>>, old |-> NoNode, candidate |-> <<>>, phase |-> "idle"]

\* The plain world (everything resolves, a checkout is on disk, git works,
\* the source files can be read) is explored with every source tree and
\* every destination; each other configuration, the first clone, a failing
\* git and an unreadable source file with a fresh destination and one source
\* file at most.
PlainEnv == conf \in PlainConfs /\ checkout /\ git = GitOk

Plain ==
    /\ PlainEnv
    /\ \A c \in Contexts : \A r \in FilesOf(src[c]) : src[c].files[r].readable

Init ==
    /\ conf \in Confs
    /\ checkout \in BOOLEAN
    /\ git \in GitWorlds
    \* a checkout in a directory the clone did not create exits non-zero
    /\ (~checkout /\ git.first = "nonzero") => git.second = "nonzero"
    /\ \E layout \in Layouts :
          /\ \E slots \in SUBSET (SeqRange(conf.contexts) \X layout) :
                /\ Cardinality(slots) <= (IF PlainEnv THEN MaxFiles ELSE 1)
                /\ \E content \in [slots -> SrcFiles \ {NoSrc}],
                      missing \in SUBSET {c \in SeqRange(conf.contexts) :
                                            \A f \in slots : f[1] # c} :
                      /\ (\E f \in slots : ~content[f].readable) => Cardinality(slots) <= 1
                      /\ src = SrcTree(content, missing \cup (Contexts \ SeqRange(conf.contexts)))
          /\ IF Plain
             THEN \E rootOk \in BOOLEAN, dirsOk \in BOOLEAN,
                     opt \in [InitFilePaths(layout) -> DstOptions] :
                     \* two nodes at most are there before the first run
                     /\ Cardinality({p \in DOMAIN opt : opt[p] # "none"}) <= 2
                     /\ ~rootOk => ~dirsOk /\ \A p \in DOMAIN opt : opt[p] = "none"
                     /\ dirsOk => \A p \in DOMAIN opt :
                                     opt[p] # "none" => Parent(p) = destination_root
                     /\ dst = InitDst(rootOk, dirsOk, opt)
                     \* the directories below the root may be symlinks to
                     \* directories when no file is at the destination yet
                     /\ \E linked \in BOOLEAN :
                           /\ linked => dirsOk /\ \A p \in DOMAIN opt : opt[p] = "none"
                           /\ links = IF linked THEN InitDirs ELSE {}
             \* a fresh destination: the root exists and is empty
             ELSE /\ dst = InitDst(TRUE, FALSE, [p \in InitFilePaths(layout) |-> "none"])
                  /\ links = {}
    /\ pc = "main"
    /\ exitCode = NoExit
    /\ runNo = 1
    /\ ctxIdx = 0
    /\ entries = {}
    /\ non_utf8 = <<>>
    /\ cur = NoCur
    /\ ops = {}
    /\ madeByRun = {}
    /\ reconciled = {}
    /\ failed = {}
    /\ gitFailed = FALSE
    /\ fetchCount = 0
    /\ preFetchReads = FALSE
    /\ prevDst = dst
    /\ call = NoCall

---------------------------------------------------------------------------
(* Actions *)

history == << ops, madeByRun, reconciled, failed, gitFailed, fetchCount, preFetchReads, prevDst >>
world == << conf, git, src, links, call >>
walker == << ctxIdx, entries, non_utf8, cur >>

\* exit(code), or the process dying of a panic
Exit(code) == pc' = "done" /\ exitCode' = code

ExitOf(st) == IF st = "panic" THEN PanicExit ELSE ErrorExit

\* the context in hand and what is on disk under its context_root
Context == conf.contexts[ctxIdx]

RootExists(c) == checkout /\ src[c].root

VisibleFiles(c) == IF RootExists(c) THEN FilesOf(src[c]) ELSE {}

Tagged(done) ==
    {[op |-> o.op, path |-> o.path, from |-> o.from, ctx |-> ctxIdx] : o \in done}

\* the paths whose node the run made, after the mutations of one step: a
\* rename carries the node (made by the run or not) to its target, a
\* create_dir or a write makes the node at its path
Made(before, done) ==
    LET renames == {o \in done : o.op = "rename" /\ o.from # o.path}
        kept == {p \in before : \A o \in renames : p # o.from /\ p # o.path}
        carried == {o.path : o \in {m \in renames : m.from \in before}}
        fresh == {o.path : o \in {m \in done : m.op \in {"create_dir", "write"}}}
    IN  kept \cup carried \cup fresh

\* main.rs:87-93, EnvConf::new: Err without a destination or without
\* contexts, and then exit(19)
Resolve ==
    /\ pc = "main"
    /\ IF ~conf.dest \/ conf.contexts = <<>>
       THEN Exit(ConfigExit)
       ELSE pc' = "fs_new" /\ UNCHANGED exitCode
    /\ UNCHANGED << world, checkout, dst, runNo, walker, history >>

\* main.rs:95, FileSystem::new: unwraps the repository URL, walks every
\* context root and reads every file under it (unwrap), then unwraps
\* PermissionManager::new
FsNew ==
    /\ pc = "fs_new"
    /\ LET read == UNION {{<<c, r>> : r \in VisibleFiles(c)} : c \in SeqRange(conf.contexts)}
           unreadable == \E f \in read : ~src[f[1]].files[f[2]].readable
       IN  /\ preFetchReads' = (conf.repo /\ read # {})
           /\ IF ~conf.repo \/ unreadable \/ ~PermissionManagerNew(conf)
              THEN Exit(PanicExit)
              ELSE pc' = "run" /\ UNCHANGED exitCode
    /\ UNCHANGED << world, checkout, dst, runNo, walker, ops, madeByRun, reconciled, failed,
                    gitFailed, fetchCount, prevDst >>

\* git_output: Err only when the command cannot be spawned; the exit status
\* is not looked at
git_output(outcome) == IF outcome = "spawn_failed" THEN "err" ELSE "ok"

\* run, main.rs:173-183: sync_repository (clone when repo_storage is
\* missing, else pull; then checkout), new_handlerbars, FileSystem::sync
SyncRepository ==
    /\ pc = "run"
    /\ IF git_output(git.first) = "err" \/ git_output(git.second) = "err"
       THEN /\ Exit(ErrorExit)
            /\ UNCHANGED << checkout, gitFailed, fetchCount, ctxIdx >>
       ELSE /\ checkout' = (checkout \/ git.first = "ok")
            /\ gitFailed' = (git.first = "nonzero" \/ git.second = "nonzero")
            /\ fetchCount' = fetchCount + 1
            /\ ctxIdx' = 1
            /\ pc' = "contexts"
            /\ UNCHANGED exitCode
    /\ UNCHANGED << world, dst, runNo, entries, non_utf8, cur, ops, madeByRun, reconciled,
                    failed, preFetchReads, prevDst >>

\* run, main.rs:185-199: the loop head; Err when the context root is missing,
\* Ok(()) after the last context, else walk_directory starts its walker
NextContext ==
    /\ pc = "contexts"
    /\ IF ctxIdx > Len(conf.contexts)
       THEN Exit(0) /\ UNCHANGED << entries, non_utf8 >>
       ELSE IF ~RootExists(Context)
       THEN Exit(ErrorExit) /\ UNCHANGED << entries, non_utf8 >>
       ELSE /\ entries' = FilesOf(src[Context])
            /\ non_utf8' = <<>>
            /\ pc' = "walk"
            /\ UNCHANGED exitCode
    /\ UNCHANGED << world, checkout, dst, runNo, ctxIdx, cur, history >>

\* walk_directory, main.rs:259-287: the walker yields an entry; ancestors
\* are created and fixed; the source is read and classified
WalkEntry ==
    /\ pc = "walk"
    /\ \E r \in entries :
          LET dest == DestOf(r)
              anc == EnsureAncestors(dst, AncestorDirs(dest), conf, {})
              source == src[Context].files[r]
          IN  /\ dst' = anc.fs
              /\ ops' = ops \cup Tagged(anc.ops)
              /\ madeByRun' = Made(madeByRun, anc.ops)
              /\ entries' = entries \ {r}
              /\ IF anc.st # "ok"
                 THEN /\ Exit(ExitOf(anc.st))
                      /\ failed' = failed \cup {<<ctxIdx, r>>}
                      /\ UNCHANGED << non_utf8, cur >>
                 ELSE IF ~source.readable
                 THEN /\ Exit(PanicExit)
                      /\ failed' = failed \cup {<<ctxIdx, r>>}
                      /\ UNCHANGED << non_utf8, cur >>
                 ELSE IF ~IsUtf8(source.bytes)
                 THEN /\ non_utf8' = Append(non_utf8, r)
                      /\ UNCHANGED << pc, exitCode, failed, cur >>
                 ELSE /\ cur' = [rel |-> r, old |-> dst'[dest],
                                 candidate |-> source.bytes, phase |-> "read"]
                      /\ pc' = "render"
                      /\ UNCHANGED << exitCode, failed, non_utf8 >>
    /\ UNCHANGED << world, checkout, runNo, ctxIdx, reconciled, gitFailed,
                    fetchCount, preFetchReads, prevDst >>

\* check_existing: Ok(false) for a missing destination or one that is not
\* UTF-8 (get_contents is None), a panic when it cannot be read (a
\* directory), Ok(true) when up to date, else the rename to the backup path
check_existing(fs, destination, rendered) ==
    IF ~Exists(fs, destination)
    THEN [st |-> "ok", same |-> FALSE, fs |-> fs, ops |-> {}]
    ELSE IF IsDir(fs, destination)
    THEN [st |-> "panic", same |-> FALSE, fs |-> fs, ops |-> {}]
    ELSE IF ~IsUtf8(fs[destination].bytes)
    THEN [st |-> "ok", same |-> FALSE, fs |-> fs, ops |-> {}]
    ELSE IF UpToDate(fs[destination].bytes, rendered)
    THEN [st |-> "ok", same |-> TRUE, fs |-> fs, ops |-> {}]
    ELSE LET moved == rename(fs, destination, BackupPath(destination))
         IN  [st |-> moved.st, same |-> FALSE, fs |-> moved.fs, ops |-> moved.ops]

\* walk_directory, main.rs:291-308 up to the write: render, check_existing,
\* and for an up-to-date file the fix_permissions that ends the loop body
RenderAndCheck ==
    /\ pc = "render"
    /\ LET dest == DestOf(cur.rel)
           rendered == render_entry(cur.candidate, Context)
           chk == check_existing(dst, dest, rendered.v)
           fixed == fix_permissions(dst, dest, conf)
       IN  IF ~rendered.some
           THEN /\ Exit(ErrorExit)
                /\ failed' = failed \cup {<<ctxIdx, cur.rel>>}
                /\ UNCHANGED << dst, ops, madeByRun, reconciled, cur >>
           ELSE IF chk.st # "ok"
           THEN /\ Exit(ExitOf(chk.st))
                /\ failed' = failed \cup {<<ctxIdx, cur.rel>>}
                /\ dst' = chk.fs
                /\ ops' = ops \cup Tagged(chk.ops)
                /\ madeByRun' = Made(madeByRun, chk.ops)
                /\ UNCHANGED << reconciled, cur >>
           ELSE IF ~chk.same
           THEN /\ pc' = "write"
                /\ dst' = chk.fs
                /\ ops' = ops \cup Tagged(chk.ops)
                /\ madeByRun' = Made(madeByRun, chk.ops)
                /\ cur' = [cur EXCEPT !.candidate = rendered.v, !.phase = "checked"]
                /\ UNCHANGED << exitCode, reconciled, failed >>
           ELSE /\ dst' = fixed.fs
                /\ ops' = ops \cup Tagged(fixed.ops)
                /\ madeByRun' = Made(madeByRun, fixed.ops)
                /\ cur' = [cur EXCEPT !.candidate = rendered.v, !.phase = "same"]
                /\ IF fixed.st = "ok"
                   THEN /\ pc' = "walk"
                        /\ reconciled' = reconciled \cup {<<ctxIdx, cur.rel>>}
                        /\ UNCHANGED << exitCode, failed >>
                   ELSE /\ Exit(ExitOf(fixed.st))
                        /\ failed' = failed \cup {<<ctxIdx, cur.rel>>}
                        /\ UNCHANGED reconciled
    /\ UNCHANGED << world, checkout, runNo, ctxIdx, entries, non_utf8, gitFailed,
                    fetchCount, preFetchReads, prevDst >>

\* a write that leaves mode and owner as File::create made them
WriteNoFix(fs, dest, bytes, c) == create_and_write(fs, dest, bytes)

\* File::create, write_all, fix_permissions: the tail of both loop bodies
\* (main.rs:303-308 and main.rs:329-332)
WriteAndFix(fs, dest, bytes, c) ==
    LET written == create_and_write(fs, dest, bytes)
        fixed == fix_permissions(written.fs, dest, c)
    IN  IF written.st # "ok" THEN written
        ELSE Res(fixed.fs, fixed.st, written.ops \cup fixed.ops)

\* walk_directory, main.rs:303-308: the write of a text file
WriteEntry ==
    /\ pc = "write"
    /\ LET out == WriteAndFix(dst, DestOf(cur.rel), cur.candidate, conf)
       IN  /\ dst' = out.fs
           /\ ops' = ops \cup Tagged(out.ops)
           /\ madeByRun' = Made(madeByRun, out.ops)
           /\ IF out.st = "ok"
              THEN /\ pc' = "walk"
                   /\ reconciled' = reconciled \cup {<<ctxIdx, cur.rel>>}
                   /\ cur' = [cur EXCEPT !.phase = "written"]
                   /\ UNCHANGED << exitCode, failed >>
              ELSE /\ Exit(ExitOf(out.st))
                   /\ failed' = failed \cup {<<ctxIdx, cur.rel>>}
                   /\ UNCHANGED << reconciled, cur >>
    /\ UNCHANGED << world, checkout, runNo, ctxIdx, entries, non_utf8, gitFailed,
                    fetchCount, preFetchReads, prevDst >>

\* the walker is exhausted: the first loop of walk_directory is over
WalkerDone == entries = {}

\* walk_directory, main.rs:312-327: the second loop takes the next non-UTF-8
\* file, compares it with the destination if that can be read, and renames
\* a differing destination to its backup path
OpaqueCheck ==
    /\ pc = "walk"
    /\ WalkerDone
    /\ non_utf8 # <<>>
    /\ LET r == Head(non_utf8)
           dest == DestOf(r)
           buf == src[Context].files[r].bytes
           readable == dst[dest].kind = "file"
           moved == rename(dst, dest, BackupPath(dest))
       IN  IF readable /\ buf = dst[dest].bytes
           THEN /\ non_utf8' = Tail(non_utf8)
                /\ reconciled' = reconciled \cup {<<ctxIdx, r>>}
                /\ cur' = [rel |-> r, old |-> dst[dest], candidate |-> buf,
                           phase |-> "same"]
                /\ UNCHANGED << pc, exitCode, dst, ops, madeByRun, failed >>
           ELSE IF readable /\ moved.st # "ok"
           THEN /\ Exit(ExitOf(moved.st))
                /\ failed' = failed \cup {<<ctxIdx, r>>}
                /\ UNCHANGED << dst, ops, madeByRun, reconciled, non_utf8, cur >>
           ELSE /\ pc' = "owrite"
                /\ dst' = IF readable THEN moved.fs ELSE dst
                /\ ops' = IF readable THEN ops \cup Tagged(moved.ops) ELSE ops
                /\ madeByRun' = IF readable THEN Made(madeByRun, moved.ops) ELSE madeByRun
                /\ cur' = [rel |-> r, old |-> dst[dest], candidate |-> buf,
                           phase |-> "checked"]
                /\ UNCHANGED << exitCode, reconciled, failed, non_utf8 >>
    /\ UNCHANGED << world, checkout, runNo, ctxIdx, entries, gitFailed,
                    fetchCount, preFetchReads, prevDst >>

\* walk_directory, main.rs:329-332: the write of a non-UTF-8 file
OpaqueWrite ==
    /\ pc = "owrite"
    /\ LET out == WriteAndFix(dst, DestOf(cur.rel), cur.candidate, conf)
       IN  /\ dst' = out.fs
           /\ ops' = ops \cup Tagged(out.ops)
           /\ madeByRun' = Made(madeByRun, out.ops)
           /\ IF out.st = "ok"
              THEN /\ pc' = "walk"
                   /\ non_utf8' = Tail(non_utf8)
                   /\ reconciled' = reconciled \cup {<<ctxIdx, cur.rel>>}
                   /\ cur' = [cur EXCEPT !.phase = "written"]
                   /\ UNCHANGED << exitCode, failed >>
              ELSE /\ Exit(ExitOf(out.st))
                   /\ failed' = failed \cup {<<ctxIdx, cur.rel>>}
                   /\ UNCHANGED << reconciled, non_utf8, cur >>
    /\ UNCHANGED << world, checkout, runNo, ctxIdx, entries, gitFailed,
                    fetchCount, preFetchReads, prevDst >>

\* a return that does not wait for the second loop
WalkFinishedEarly == WalkerDone

\* both loops of walk_directory are over
WalkFinished == WalkerDone /\ non_utf8 = <<>>

\* walk_directory, main.rs:335: Ok(()), and run's loop moves to the next
\* context
WalkReturn ==
    /\ pc = "walk"
    /\ WalkFinished
    /\ ctxIdx' = ctxIdx + 1
    /\ pc' = "contexts"
    /\ UNCHANGED << world, checkout, dst, exitCode, runNo, entries, non_utf8, cur,
                    history >>

\* the operator invokes the program again after a run that ended with exit
\* code 0, the source tree and the variables unchanged
Rerun ==
    /\ pc = "done"
    /\ exitCode = 0
    /\ runNo < MaxRuns
    /\ runNo' = runNo + 1
    /\ pc' = "main"
    /\ exitCode' = NoExit
    /\ prevDst' = dst
    /\ ctxIdx' = 0
    /\ cur' = NoCur
    /\ ops' = {}
    /\ madeByRun' = {}
    /\ reconciled' = {}
    /\ failed' = {}
    /\ gitFailed' = FALSE
    /\ fetchCount' = 0
    /\ preFetchReads' = FALSE
    /\ UNCHANGED << world, checkout, dst, entries, non_utf8 >>

Next ==
    \/ Resolve
    \/ FsNew
    \/ SyncRepository
    \/ NextContext
    \/ WalkEntry
    \/ RenderAndCheck
    \/ WriteEntry
    \/ OpaqueCheck
    \/ OpaqueWrite
    \/ WalkReturn
    \/ Rerun

Spec == Init /\ [][Next]_vars

---------------------------------------------------------------------------
(* The configuration functions on their own *)

\* the pipeline has not started: main is at EnvConf::new (main.rs:87)
Parked ==
    /\ conf = MkConf(TRUE, TRUE, <<"a">>, GoodIdentity)
    /\ checkout = TRUE
    /\ git = GitOk
    /\ src = SrcTree(<<>>, {})
    /\ dst = InitDst(TRUE, FALSE, <<>>)
    /\ links = {}
    /\ pc = "main"
    /\ exitCode = NoExit
    /\ runNo = 1
    /\ ctxIdx = 0
    /\ entries = {}
    /\ non_utf8 = <<>>
    /\ cur = NoCur
    /\ ops = {}
    /\ madeByRun = {}
    /\ reconciled = {}
    /\ failed = {}
    /\ gitFailed = FALSE
    /\ fetchCount = 0
    /\ preFetchReads = FALSE
    /\ prevDst = dst

Pending(fn, arg) == [fn |-> fn, arg |-> arg, done |-> FALSE, out |-> <<>>]

ConfInit ==
    /\ Parked
    /\ \/ \E arg \in GetEnvInputs : call = Pending("get_env", arg)
       \/ \E arg \in ContextsInputs : call = Pending("contexts", arg)
       \/ \E arg \in VariablesInputs : call = Pending("get_variables", arg)

pipeline == << conf, git, checkout, src, dst, links, pc, exitCode, runNo, ctxIdx, entries,
               non_utf8, cur, ops, madeByRun, reconciled, failed, gitFailed,
               fetchCount, preFetchReads, prevDst >>

\* EnvConf::get_env, config.rs:85-87
GetEnv ==
    /\ call.fn = "get_env" /\ ~call.done
    /\ call' = [call EXCEPT !.done = TRUE,
                            !.out = get_env(call.arg.name, call.arg.flag,
                                            call.arg.file, call.arg.env)]
    /\ UNCHANGED pipeline

\* EnvConf::new, config.rs:51-75: the context list
GetContexts ==
    /\ call.fn = "contexts" /\ ~call.done
    /\ call' = [call EXCEPT !.done = TRUE,
                            !.out = ResolveContexts(call.arg.flag, call.arg.file,
                                                    call.arg.env)]
    /\ UNCHANGED pipeline

\* EnvConf::get_variables, config.rs:89-101
GetVariables ==
    /\ call.fn = "get_variables" /\ ~call.done
    /\ call' = [call EXCEPT !.done = TRUE,
                            !.out = MergeVariables(call.arg.file, call.arg.env)]
    /\ UNCHANGED pipeline

ConfNext ==
    \/ GetEnv
    \/ GetContexts
    \/ GetVariables

ConfSpec == ConfInit /\ [][ConfNext]_vars

---------------------------------------------------------------------------
(* Vocabulary of the properties *)

Configured == 1..Len(conf.contexts)

\* the source files of the k-th configured context, as the walker sees them
SourceFiles(k) == VisibleFiles(conf.contexts[k])

AllSourceFiles == UNION {{<<k, r>> : r \in SourceFiles(k)} : k \in Configured}

\* the bytes the reconciler wants at the destination of file r of context k
Candidate(k, r) ==
    LET bytes == src[conf.contexts[k]].files[r].bytes
    IN  IF IsUtf8(bytes) THEN render_entry(bytes, conf.contexts[k]).v ELSE bytes

OpsOf(kinds) == {o \in ops : o.op \in kinds}

---------------------------------------------------------------------------
(* C1 *)

\* C1: in the state right before the destination is created and written
\* (pc is "write" for a text source, "owrite" for an opaque one), a
\* destination file that existed when its reconciliation started and whose
\* bytes differ from the candidate has its old content at the backup path.
NoInPlaceTruncation ==
    (/\ pc \in {"write", "owrite"}
     /\ cur.old.kind = "file"
     /\ cur.old.bytes # cur.candidate)
    => /\ dst[BackupPath(DestOf(cur.rel))].kind = "file"
       /\ dst[BackupPath(DestOf(cur.rel))].bytes = cur.old.bytes

---------------------------------------------------------------------------
(* C2 *)

\* C2 as claimed: in a run that follows a successful run on the same source
\* tree, no backup file is created or replaced and every path holds the
\* bytes the previous run left, whatever the context list.
Idempotence ==
    runNo >= 2 =>
        /\ OpsOf({"rename"}) = {}
        /\ \A p \in AllPaths :
              dst[p].kind = prevDst[p].kind /\ dst[p].bytes = prevDst[p].bytes

\* no two configured contexts want different bytes at one relative path
NoSharedPath ==
    \A f \in AllSourceFiles, g \in AllSourceFiles :
        f[2] = g[2] => Candidate(f[1], f[2]) = Candidate(g[1], g[2])

\* no destination's backup path is the destination of another source file
NoBackupClash ==
    \A f \in AllSourceFiles, g \in AllSourceFiles :
        f[2] # g[2] => BackupPath(DestOf(f[2])) # DestOf(g[2])

\* C2 (amended): when no relative path has different candidates in two
\* configured contexts and no destination's backup path is another source
\* file's destination, a run that follows a successful run renames nothing
\* to a backup path and leaves every path with the bytes of the previous run.
IdempotentRerun ==
    (runNo >= 2 /\ NoSharedPath /\ NoBackupClash) =>
        /\ OpsOf({"rename"}) = {}
        /\ \A p \in AllPaths :
              dst[p].kind = prevDst[p].kind /\ dst[p].bytes = prevDst[p].bytes

\* a second run that ended after finding a text file and an opaque file of
\* two contexts up to date
IdempotentRerunWitness ==
    /\ runNo = 2
    /\ pc = "done"
    /\ exitCode = 0
    /\ NoSharedPath /\ NoBackupClash
    /\ Len(conf.contexts) = 2
    /\ \E f \in reconciled, g \in reconciled :
          /\ f[1] # g[1]
          /\ IsUtf8(src[conf.contexts[f[1]]].files[f[2]].bytes)
          /\ ~IsUtf8(src[conf.contexts[g[1]]].files[g[2]].bytes)

---------------------------------------------------------------------------
(* C3 *)

\* C3: when the run has ended and the reconciliation of a file failed, the
\* exit code is 1 and every other file of every configured context has been
\* reconciled.
ErrorIsolation ==
    (pc = "done" /\ failed # {}) =>
        /\ exitCode = ErrorExit
        /\ \A f \in AllSourceFiles \ failed : f \in reconciled

---------------------------------------------------------------------------
(* C4 *)

\* C4: every path the run has created, written, renamed to, or changed the
\* mode or owner of has destination_root as a prefix, and no node outside
\* destination_root differs from what it was before the run.
Scope ==
    /\ \A o \in ops : StartsWith(o.path, destination_root)
    /\ \A p \in AllPaths : ~StartsWith(p, destination_root) => dst[p] = prevDst[p]

\* a run that created a directory, renamed a file to its backup path, wrote
\* a file and changed modes and owners
ScopeWitness ==
    /\ pc = "done"
    /\ exitCode = 0
    /\ \A kind \in {"create_dir", "rename", "write", "chmod", "chown"} :
          OpsOf({kind}) # {}

---------------------------------------------------------------------------
(* C5 *)

\* EnvConf::new returned Ok
Resolved == conf.dest /\ conf.contexts # <<>>

\* C5: in every invocation the fetch runs once at most and no source file
\* of a context is read before it has completed; an invocation whose
\* configuration resolved and that ended with exit code 0 has fetched
\* exactly once and has gone through every configured context.
FetchFirst ==
    /\ fetchCount <= 1
    /\ ~preFetchReads
    /\ (pc = "done" /\ exitCode = 0) =>
          /\ Resolved
          /\ fetchCount = 1
          /\ ctxIdx = Len(conf.contexts) + 1

---------------------------------------------------------------------------
(* C6 *)

\* configuration resolution fails: no destination, no contexts, or no
\* owner / group that resolves
ConfigFails == ~Resolved \/ ~PermissionManagerNew(conf)

\* C6: when the run has ended, the exit code is 0 exactly when every file of
\* every context was reconciled (and nothing before that failed), 1 when a
\* file failed, 19 when configuration resolution failed, and neither 0, 1
\* nor 19 when a git sub-step failed.
ExitCodes ==
    pc = "done" =>
        /\ exitCode = 0 =>
              /\ ~ConfigFails
              /\ ~gitFailed
              /\ failed = {}
              /\ AllSourceFiles \subseteq reconciled
        /\ (/\ ~ConfigFails
            /\ fetchCount = 1
            /\ ~gitFailed
            /\ \A k \in Configured : RootExists(conf.contexts[k])
            /\ AllSourceFiles \subseteq reconciled) => exitCode = 0
        /\ failed # {} => exitCode = ErrorExit
        /\ ConfigFails => exitCode = ConfigExit
        /\ gitFailed => exitCode \notin {0, ErrorExit, ConfigExit}

---------------------------------------------------------------------------
(* C7 *)

\* the destination root, as the invocation found it, is not a directory, or
\* the root of a configured context is not on disk
PreconditionFails ==
    \/ prevDst[destination_root].kind # "dir"
    \/ \E k \in Configured : ~RootExists(conf.contexts[k])

\* C7: a run whose destination root or one of whose context roots is
\* missing ends with a failure and has created, written, renamed and
\* chmod/chown-ed nothing.
PreconditionBeforeWrite ==
    (pc = "done" /\ PreconditionFails) => (exitCode # 0 /\ ops = {})

---------------------------------------------------------------------------
(* C8 *)

\* C8: once a git sub-step has exited with a non-zero status no context is
\* processed, nothing under the destination root is modified, and the run
\* does not end with exit code 0.
FetchFailureFatal ==
    gitFailed =>
        /\ pc \notin {"walk", "render", "write", "owrite"}
        /\ ops = {}
        /\ reconciled = {}
        /\ failed = {}
        /\ pc = "done" => exitCode # 0

---------------------------------------------------------------------------
(* C9 *)

\* the contexts (by index) on whose behalf something has happened
Touched == {o.ctx : o \in ops} \cup {f[1] : f \in reconciled \cup failed}

\* C9: nothing happens on behalf of a context later than the one in hand,
\* and when a directory was created, a backup made, a file written or a
\* permission changed on behalf of context k, every file of every context
\* before k, text and opaque, has been reconciled.
ContextOrder ==
    /\ \A k \in Touched : k <= ctxIdx
    /\ \A k \in Touched : \A j \in 1..(k - 1) :
          \A r \in SourceFiles(j) : <<j, r>> \in reconciled

\* a run that ended after an opaque file of the first context and a file of
\* the second one were written
ContextOrderWitness ==
    /\ pc = "done"
    /\ exitCode = 0
    /\ \E o \in OpsOf({"write"}) : o.ctx = 2
    /\ \E o \in OpsOf({"write"}) :
          /\ o.ctx = 1
          /\ \E r \in SourceFiles(1) :
                DestOf(r) = o.path /\ ~IsUtf8(src[conf.contexts[1]].files[r].bytes)

---------------------------------------------------------------------------
(* C10 *)

\* etc/app.conf.bak under the destination root
AppConfDotBak == DestOf(<< <<"etc">>, <<"app", "conf", "bak">> >>)

\* the contexts (by index) with a text source file etc/app.conf whose
\* rendering differs from the file the run found at the destination
Drifted ==
    {k \in Configured :
        /\ AppConf \in SourceFiles(k)
        /\ IsUtf8(src[conf.contexts[k]].files[AppConf].bytes)
        /\ prevDst[DestOf(AppConf)].kind = "file"
        /\ prevDst[DestOf(AppConf)].bytes # Candidate(k, AppConf)}

OnlyAppConf(k) ==
    \A f \in AllSourceFiles : f # <<k, AppConf>> => f[2] \notin {AppConf, AppBak}

---------------------------------------------------------------------------
(* C11 *)

\* the backup name as the claim words it: the final extension of P replaced
\* by bak, or .bak appended to a name that has no extension
ClaimedBackup(p) ==
    LET name == p[Len(p)]
    IN  IF Len(name) >= 2
        THEN Parent(p) \o << SubSeq(name, 1, Len(name) - 1) \o <<"bak">> >>
        ELSE Parent(p) \o << name \o <<"bak">> >>

\* C11: every rename the run makes, for a text source and for an opaque
\* source alike, moves a destination P to P with its final extension
\* replaced by bak, or to P.bak when P has no extension.
BackupNaming ==
    \A o \in OpsOf({"rename"}) : o.path = ClaimedBackup(o.from)

\* a run that backed up a destination with an extension and one without,
\* one for a text source and one for an opaque source
BackupNamingWitness ==
    /\ pc = "done"
    /\ exitCode = 0
    /\ \E o \in OpsOf({"rename"}), q \in OpsOf({"rename"}) :
          /\ o.from = DestOf(AppConf) /\ o.path = DestOf(AppBak)
          /\ q.from = DestOf(Blob) /\ q.path = DestOf(<< <<"blob", "bak">> >>)
          /\ \E k \in Configured, j \in Configured :
                /\ AppConf \in SourceFiles(k) /\ Blob \in SourceFiles(j)
                /\ IsUtf8(src[conf.contexts[k]].files[AppConf].bytes)
                   # IsUtf8(src[conf.contexts[j]].files[Blob].bytes)

---------------------------------------------------------------------------
(* C12 *)

\* the source file r of the k-th context is text (valid UTF-8)
TextAt(k, r) == IsUtf8(src[conf.contexts[k]].files[r].bytes)

\* contexts a then b, and no others, hold the relative path r, with
\* different renderings; the destination is absent before the run, and no
\* other source file goes to the destination of r or to its backup path
SharedBy(a, b, r) ==
    /\ a < b
    /\ {k \in Configured : r \in SourceFiles(k)} = {a, b}
    /\ TextAt(a, r) /\ TextAt(b, r)
    /\ Candidate(a, r) # Candidate(b, r)
    /\ prevDst[DestOf(r)].kind = "none"
    /\ \A f \in AllSourceFiles :
          f[2] # r => /\ DestOf(f[2]) # ClaimedBackup(DestOf(r))
                      /\ ClaimedBackup(DestOf(f[2])) # DestOf(r)

\* the destination of r holds b's rendering, its backup file a's
LastWriter(a, b, r) ==
    /\ dst[DestOf(r)].kind = "file"
    /\ dst[DestOf(r)].bytes = Candidate(b, r)
    /\ dst[ClaimedBackup(DestOf(r))].kind = "file"
    /\ dst[ClaimedBackup(DestOf(r))].bytes = Candidate(a, r)

---------------------------------------------------------------------------
(* C13 *)

\* C13: the value an option resolves to is the command-line flag when it is
\* given, else the env file's entry when there is one, else the process
\* variable; for the context list the same, the names being those of the
\* source that wins.
OptionPrecedence ==
    /\ (call.fn = "get_env" /\ call.done) =>
          LET a == call.arg
          IN  IF a.flag.some THEN call.out = a.flag
              ELSE IF a.file.present /\ a.file.has THEN call.out = Given(a.file.v)
              ELSE IF a.env.some THEN call.out = a.env
              ELSE TRUE
    /\ (call.fn = "contexts" /\ call.done) =>
          LET a == call.arg
          IN  IF a.flag.some THEN call.out.names = a.flag.v
              ELSE IF a.file.present /\ a.file.has
              THEN call.out.names = SplitComma(a.file.v)
              ELSE IF a.env.some THEN call.out.names = SplitComma(a.env.v)
              ELSE TRUE

---------------------------------------------------------------------------
(* C14 *)

\* C14: the map get_variables exposes has the keys of the env file and of
\* the process environment; a key the process environment has carries the
\* process value, a key only the env file has carries the file's value.
VariablePrecedence ==
    (call.fn = "get_variables" /\ call.done) =>
        LET store == call.arg.file.store
            env == call.arg.env
        IN  /\ DOMAIN call.out = DOMAIN store \cup DOMAIN env
            /\ \A k \in DOMAIN call.out :
                  call.out[k] = IF k \in DOMAIN env THEN env[k] ELSE store[k]

\* a map made from an env file and a process environment that share a key
\* and have a key each of their own
VariablePrecedenceWitness ==
    /\ call.fn = "get_variables"
    /\ call.done
    /\ call.arg.file.present
    /\ DOMAIN call.arg.file.store = {"PORT", "server_name"}
    /\ DOMAIN call.arg.env = {"PORT", "HOME"}
    /\ call.out["PORT"] = "from-env"
    /\ call.out["server_name"] = "from-file"
    /\ call.out["HOME"] = "from-env"

---------------------------------------------------------------------------
(* C15 *)

\* the rendering in hand is that of a text file of the context in hand:
\* it has just been rendered, or the file has been reconciled since
RenderedInHand ==
    /\ ctxIdx \in Configured
    /\ cur.phase \in {"checked", "same", "written"}
    /\ cur.rel \in SourceFiles(ctxIdx)
    /\ TextAt(ctxIdx, cur.rel)
    /\ pc = "write" \/ <<ctxIdx, cur.rel>> \in reconciled

\* C15: in every rendering, of the first context and of each later one,
\* {{server_name}} stands for the name of the context in hand, although the
\* env file and the process environment both define server_name; the
\* variables of the settings still carry their own server_name.
ServerNameIsContext ==
    /\ RenderedInHand =>
          LET source == src[Context].files[cur.rel].bytes
          IN  /\ Len(cur.candidate) = Len(source)
              /\ \A i \in DOMAIN source :
                    source[i] = "{{server_name}}" => cur.candidate[i] = Context
    /\ get_variables["server_name"] = "from-env"

\* the second context's rendering names the second context, after the
\* first context's file was rendered and reconciled
ServerNameIsContextWitness ==
    /\ pc = "write"
    /\ ctxIdx = 2
    /\ RenderedInHand
    /\ cur.candidate = <<"host=", "b", ":", "8080">>
    /\ \E r \in SourceFiles(1) :
          /\ <<1, r>> \in reconciled
          /\ src[conf.contexts[1]].files[r].bytes = TextSource

---------------------------------------------------------------------------
(* C16 *)

\* the bytes are valid UTF-8: the invalid byte is not among them
ValidUtf8(bytes) == \A i \in DOMAIN bytes : bytes[i] # "0xFF"

\* the source bytes of the file in hand
SourceInHand == src[Context].files[cur.rel].bytes

\* the file in hand is an opaque file of the context in hand that has just
\* been written
OpaqueWritten ==
    /\ ctxIdx \in Configured
    /\ pc = "walk"
    /\ cur.phase = "written"
    /\ cur.rel \in SourceFiles(ctxIdx)
    /\ ~ValidUtf8(SourceInHand)
    /\ <<ctxIdx, cur.rel>> \in reconciled

\* C16: a file is rendered exactly when its source is valid UTF-8, whatever
\* is at the destination: only valid sources reach the renderer (so a render
\* error is never raised for another one) and what is written for them is
\* the rendering; only invalid sources are deferred to the byte copy, and
\* what is written for them is the source, byte for byte.
SourceDriven ==
    /\ pc \in {"render", "write"} => ValidUtf8(SourceInHand)
    /\ pc = "write" => cur.candidate = render_entry(SourceInHand, Context).v
    /\ pc = "walk" =>
          \A i \in DOMAIN non_utf8 : ~ValidUtf8(src[Context].files[non_utf8[i]].bytes)
    /\ pc = "owrite" => ~ValidUtf8(SourceInHand) /\ cur.candidate = SourceInHand
    /\ OpaqueWritten => dst[DestOf(cur.rel)].bytes = SourceInHand

\* an opaque source is about to replace a text destination, after a text
\* source was rendered over a destination that was not valid UTF-8
SourceDrivenWitness ==
    /\ pc = "owrite"
    /\ cur.old.kind = "file"
    /\ ValidUtf8(cur.old.bytes)
    /\ \E f \in reconciled :
          /\ TextAt(f[1], f[2])
          /\ prevDst[DestOf(f[2])].kind = "file"
          /\ ~ValidUtf8(prevDst[DestOf(f[2])].bytes)
          /\ dst[DestOf(f[2])].bytes = Candidate(f[1], f[2])

---------------------------------------------------------------------------
(* C17 *)

\* the identities the configuration resolves to: the numeric id when it
\* parses, else the id of the name
ResolvedOwner(c) ==
    IF c.UID \in DOMAIN Numeric THEN Numeric[c.UID] ELSE Passwd[c.USER]

ResolvedGroup(c) ==
    IF c.GID \in DOMAIN Numeric THEN Numeric[c.GID] ELSE GroupDb[c.GROUP]

\* C17: after a run that ended with exit code 0, every file the run wrote
\* has mode 0644 (420), every directory it created has mode 0755 (493), and
\* each of them has the resolved owner and group.  A file the run wrote is
\* followed through a rename to its backup path; a path onto which the run
\* later renamed an older file no longer holds a file the run wrote.
PermissionNormalization ==
    (pc = "done" /\ exitCode = 0) =>
        \A p \in madeByRun :
            /\ dst[p].kind \in {"file", "dir"}
            /\ dst[p].kind = "file" => dst[p].mode = 420
            /\ dst[p].kind = "dir" => dst[p].mode = 493
            /\ StartsWith(p, destination_root)
            /\ dst[p].uid = ResolvedOwner(conf)
            /\ dst[p].gid = ResolvedGroup(conf)

\* a successful run, its owner and group given by name, that created a
\* directory and wrote a file
PermissionNormalizationWitness ==
    /\ pc = "done"
    /\ exitCode = 0
    /\ conf.USER = "deploy" /\ conf.GROUP = "web"
    /\ \E p \in madeByRun, q \in madeByRun :
          /\ dst[p].kind = "dir" /\ dst[p].uid = 1001 /\ dst[p].gid = 48
          /\ dst[q].kind = "file" /\ dst[q].uid = 1001 /\ dst[q].gid = 48

---------------------------------------------------------------------------
(* C18 *)

RECURSIVE TrimLeft(_)
TrimLeft(str) ==
    IF str # <<>> /\ Head(str) = " " THEN TrimLeft(Tail(str)) ELSE str

RECURSIVE TrimRight(_)
TrimRight(str) ==
    IF str # <<>> /\ str[Len(str)] = " "
    THEN TrimRight(SubSeq(str, 1, Len(str) - 1))
    ELSE str

Trim(str) == TrimRight(TrimLeft(str))

\* the names the claim reads out of a delimited string: split at every ','
\* and ';', each piece stripped of surrounding whitespace, input order kept
ClaimedNames(str) ==
    LET pieces == SplitCommaSemicolon(str)
    IN  [i \in 1..Len(pieces) |-> Trim(pieces[i])]

\* the delimited string EnvConf::new parses, when it parses one: no -c was
\* given, there is an env file, and the file or the process has the entry
ParsesString(a) ==
    /\ ~a.flag.some
    /\ a.file.present
    /\ a.file.has \/ a.env.some

ParsedString(a) == IF a.file.has THEN a.file.v ELSE a.env.v

\* C18: when the context list is read from a delimited string, the names are
\* the pieces between every ',' and ';', stripped of surrounding whitespace,
\* in input order; a string with an empty name never yields that name as a
\* context (the list is refused, or the empty name is left out), and a
\* string without an empty name is accepted with exactly its names.
ContextParsing ==
    (call.fn = "contexts" /\ call.done /\ ParsesString(call.arg)) =>
        LET names == ClaimedNames(ParsedString(call.arg))
            kept == SelectSeq(names, LAMBDA n : n # <<>>)
        IN  /\ call.out.ok => call.out.names = kept
            /\ kept = names => call.out.ok

---------------------------------------------------------------------------
(* C19 *)

\* the password database's primary group of each user id
PrimaryGid == (1000 :> 100) @@ (1001 :> 48)

NoGroupGiven == conf.GID = Unset /\ conf.GROUP = Unset

OwnerResolves ==
    \/ conf.UID \in DOMAIN Numeric
    \/ conf.UID = Unset /\ conf.USER \in DOMAIN Passwd

\* every source file FileSystem::new reads can be read
SourcesReadable ==
    \A c \in SeqRange(conf.contexts) :
        \A r \in VisibleFiles(c) : src[c].files[r].readable

\* C19: with neither GID nor GROUP given and an owner that resolves, the
\* invocation does not end before the fetch for want of a group (a panic
\* before the fetch has another cause: no repository URL or an unreadable
\* source), and after a successful run every node the run made carries the
\* primary group of the resolved owner.
GroupFallback ==
    (NoGroupGiven /\ OwnerResolves) =>
        /\ (pc = "done" /\ exitCode = PanicExit /\ fetchCount = 0) =>
              ~conf.repo \/ ~SourcesReadable
        /\ (pc = "done" /\ exitCode = 0) =>
              \A p \in madeByRun : dst[p].gid = PrimaryGid[ResolvedOwner(conf)]

---------------------------------------------------------------------------
(* C20 *)

\* the directories of a destination's parent chain under the destination
\* root
ChainOf(r) == SeqRange(AncestorDirs(DestOf(r)))

\* C20: whatever number of directories of a destination's parent chain is
\* missing, they are all created before the file is handled: no file fails
\* while a directory of its chain is still missing, unless something that is
\* not a directory stands in the chain.
AncestorOrder ==
    \A f \in failed :
        (\A a \in ChainOf(f[2]) : dst[a].kind \in {"none", "dir"}) =>
            \A a \in ChainOf(f[2]) : dst[a].kind = "dir"

---------------------------------------------------------------------------
(* C21 *)

\* the configured identity is in error: no owner resolves from UID / USER,
\* a given UID is not numeric, or a given name is unknown
IdentityError ==
    \/ ~OwnerResolves
    \/ conf.UID # Unset /\ conf.UID \notin DOMAIN Numeric
    \/ conf.USER # Unset /\ conf.USER \notin DOMAIN Passwd
    \/ conf.GROUP # Unset /\ conf.GROUP \notin DOMAIN GroupDb

\* C21: with an identity in error the invocation ends with exit code 19, and
\* it creates no directory and writes, renames or chmods nothing under the
\* destination root.
IdentityUpFront ==
    IdentityError =>
        /\ pc = "done" => exitCode = ConfigExit
        /\ ops = {}

---------------------------------------------------------------------------
(* C22 *)

\* the file in hand was found equal to its candidate and is reconciled
FoundSame ==
    /\ ctxIdx \in Configured
    /\ cur.phase = "same"
    /\ <<ctxIdx, cur.rel>> \in reconciled

\* C22: a destination found equal to its candidate (text or opaque) is,
\* once the file counts as reconciled, a file of mode 0644 (420) with the
\* resolved owner and group, and nothing was written or renamed for it.
NoOpNormalizes ==
    FoundSame =>
        LET d == dst[DestOf(cur.rel)]
        IN  /\ d = [cur.old EXCEPT !.mode = 420,
                                   !.uid = ResolvedOwner(conf),
                                   !.gid = ResolvedGroup(conf)]
            /\ d.kind = "file"

---------------------------------------------------------------------------
(* C23 *)

\* source files whose destination was a directory before the run, and that
\* can be read and rendered: nothing but the directory is in their way
OntoDirectory ==
    {f \in AllSourceFiles :
        LET source == src[conf.contexts[f[1]]].files[f[2]]
        IN  /\ prevDst[DestOf(f[2])].kind = "dir"
            /\ source.readable
            /\ IsUtf8(source.bytes) => render_entry(source.bytes, conf.contexts[f[1]]).some}

\* C23: a file whose destination is a directory fails alone and with an
\* error value: the run does not end with a crash, the directory stays where
\* it is, and when the run has ended every other source file has been
\* handled.
DirectoryDestination ==
    \A f \in OntoDirectory :
        /\ dst[DestOf(f[2])] = prevDst[DestOf(f[2])]
        /\ f \notin reconciled
        /\ f \in failed =>
              /\ exitCode # PanicExit
              /\ pc = "done" =>
                    \A g \in AllSourceFiles \ OntoDirectory : g \in reconciled \cup failed

---------------------------------------------------------------------------
(* C24 *)

\* C24: for every destination path that is a symlink, the mode, the owner
\* and the group seen at that path (those of the link's target) are the
\* ones they were before the run.
SymlinksPassedOver ==
    \A p \in links :
        /\ dst[p].mode = prevDst[p].mode
        /\ dst[p].uid = prevDst[p].uid
        /\ dst[p].gid = prevDst[p].gid

---------------------------------------------------------------------------
(* C25 *)

\* the destinations of the source files reconciled in this run
ReconciledDests == {DestOf(f[2]) : f \in reconciled}

\* C25: for any two distinct destination paths reconciled in one run, the
\* backup path of the one is neither the other nor the other's backup path.
BackupsApart ==
    \A p \in ReconciledDests, q \in ReconciledDests :
        p # q => /\ BackupPath(p) # q
                 /\ BackupPath(p) # BackupPath(q)

---------------------------------------------------------------------------
(* C26 *)

\* C26: every rename to a backup path that the run has made moved the old
\* file to a path other than the destination itself, so that the old
\* content is found there when the destination is created anew.
BackupElsewhere ==
    /\ \A o \in OpsOf({"rename"}) : o.path # o.from
    /\ (pc \in {"write", "owrite"} /\ \E o \in OpsOf({"rename"}) :
                                         o.from = DestOf(cur.rel) /\ o.ctx = ctxIdx)
          => dst[DestOf(cur.rel)].kind = "none"

---------------------------------------------------------------------------
(* C27 *)

\* the configured contexts that have the relative path r
Holders(r) == {k \in Configured : r \in SourceFiles(k)}

\* the last of them in configured order
LastHolder(r) == CHOOSE k \in Holders(r) : \A j \in Holders(r) : j <= k

\* C27: after a run that ended with exit code 0, the destination of every
\* relative path that some configured context has is a file whose bytes are
\* the candidate of the last configured context that has the path.
Convergence ==
    (pc = "done" /\ exitCode = 0) =>
        \A r \in RelPaths :
            Holders(r) # {} =>
                /\ dst[DestOf(r)].kind = "file"
                /\ dst[DestOf(r)].bytes = Candidate(LastHolder(r), r)

---------------------------------------------------------------------------
(* C28 *)

\* C28: a directory that was there before the run, the destination root
\* included, has the mode, the owner and the group it had before the run.
ExistingDirsKept ==
    \A p \in AllPaths :
        prevDst[p].kind = "dir" => dst[p] = prevDst[p]

====
